---- MODULE Spec2Model ----
(***************************************************************************)
(* Validator-side FBFT message handlers of consensus/validator.go:         *)
(* onAnnounce, onPrepared, onCommitted and the helpers they call.  Each    *)
(* handler invocation runs on its own goroutine; the consensus mutex       *)
(* guards the locked sections.                                             *)
(***************************************************************************)
EXTENDS Integers, FiniteSets, Sequences, TLC

\* ------------------------------------------------------------------ bounds
\* Largest block number the chain reaches and a message carries.
MaxBlockNum == 2
\* Blocks known to the network; block h has hash h and number h.
NumBlocks == 2
\* Largest view ID a message carries (the node's view ID is 0).
MaxViewID == 1
\* Width of the block-number integer (uint64 in the code, narrowed here).
UintBits == 4

\* ------------------------------------------------------- program constants
CommitteeSize == 4
ChanCap == 1

Threads == {"g1", "g2"}
NoThread == "none"

Hashes == 1..NumBlocks
EmptyHash == 0
BadBytes == NumBlocks + 1
NilPayload == <<"nil">>
NoSig == [signers |-> {}, digest |-> <<"none">>]

Timers == {"timeoutBootstrap", "timeoutConsensus"}

UintModulus == 2 ^ UintBits
\* unsigned subtraction as the machine computes it
USub(a, b) == (a - b + UintModulus) % UintModulus

\* --------------------------------------------------------------- the blocks
Epoch(h) == 0
NumberU64(h) == h
HeaderViewID(h) == 0
\* signature.ConstructCommitPayload: a deterministic function of the block
ConstructCommitPayload(epoch, hash, number, view) == <<"commit", epoch, hash, number, view>>
\* Variant: a payload that does not depend on the block.
CommitPayloadOfNone(h) == ConstructCommitPayload(0, EmptyHash, 0, 0)
\* lines 84-85 and 263-264: the commit payload of a decoded block
CommitPayloadOf(h) == ConstructCommitPayload(Epoch(h), h, NumberU64(h), HeaderViewID(h))
PrepareDigest(h) == <<"prepare", h>>

\* ------------------------------------------------------------- the messages
BitmapLen == (CommitteeSize + 7) \div 8

Payload(signers, digest) == [sig |-> [signers |-> signers, digest |-> digest],
                             bitmap |-> signers, len |-> BitmapLen]

\* message constructors
Announce(n, v, h) ==
  [type |-> "ANNOUNCE", blockNum |-> n, viewID |-> v, blockHash |-> h,
   payload |-> Payload({}, <<"none">>), block |-> BadBytes]
Prepared(n, v, h, signers, signed, blk) ==
  [type |-> "PREPARED", blockNum |-> n, viewID |-> v, blockHash |-> h,
   payload |-> Payload(signers, PrepareDigest(signed)), block |-> blk]
Committed(n, h, signers, signed) ==
  [type |-> "COMMITTED", blockNum |-> n, viewID |-> 0, blockHash |-> h,
   payload |-> Payload(signers, CommitPayloadOf(signed)), block |-> BadBytes]

NoMsg == [type |-> "NONE", blockNum |-> 0, viewID |-> 0, blockHash |-> EmptyHash,
          payload |-> Payload({}, <<"none">>), block |-> BadBytes]

VARIABLES
  blockNum, blockHash, block, viewID, phase, mode,
  aggregatedPrepareSig, prepareBitmap, aggregatedCommitSig, commitBitmap,
  consensusTimeout, BlockNumLowChan, mutex, FBFTLog, commitSigDB,
  BlockVerifier, AggregateSig, priKey,
  network, pc, msg, logged, outbox

state == <<blockNum, blockHash, block, viewID, phase, mode,
           aggregatedPrepareSig, prepareBitmap, aggregatedCommitSig, commitBitmap>>
config == <<BlockVerifier, AggregateSig, priKey, network>>
vars == <<blockNum, blockHash, block, viewID, phase, mode,
          aggregatedPrepareSig, prepareBitmap, aggregatedCommitSig, commitBitmap,
          consensusTimeout, BlockNumLowChan, mutex, FBFTLog, commitSigDB,
          BlockVerifier, AggregateSig, priKey, network, pc, msg, logged, outbox>>

\* ------------------------------------------------- external collaborators
\* Decider.IsQuorumAchievedByMask: one vote per member, more than two thirds.
QuorumThreshold == (2 * CommitteeSize) \div 3 + 1
IsQuorumAchievedByMask(mask) == Cardinality(mask) >= QuorumThreshold

\* aggSig.VerifyHash(mask.AggregatePublic, digest)
VerifyHash(aggSig, mask, digest) == aggSig.signers = mask /\ aggSig.digest = digest

\* ReadSignatureBitmapPayload: the bitmap must have the committee's length.
ReadSignatureBitmapPayloadOk(payload) == payload.len = BitmapLen

\* checkViewID: nil when the message's view is the node's current view.
checkViewIDOk(m) == m.viewID = viewID

\* mask.CountEnabled()
CountEnabled(mask) == Cardinality(mask)

\* ------------------------------------------------------------ key handling
K1 == [pub |-> "k1", inCommittee |-> TRUE]
K2in == [pub |-> "k2", inCommittee |-> TRUE]
K2out == [pub |-> "k2", inCommittee |-> FALSE]
KeyConfigs == {<<K2out>>, <<K1, K2out>>, <<K1, K2in>>}

IsValidatorInCommittee(key) == key.inCommittee

getPriKeysInCommittee == SelectSeq(priKey, IsValidatorInCommittee)

RECURSIVE KeepIdx(_, _)
KeepIdx(s, I) ==
  IF s = <<>> THEN <<>>
  ELSE LET n == Len(s)
           rest == KeepIdx(SubSeq(s, 1, n - 1), I)
       IN IF n \in I THEN Append(rest, s[n]) ELSE rest

NetworkMessage(msgType, payloadForSign, keys) ==
  [type |-> msgType, payload |-> payloadForSign, keys |-> keys]

\* Variant: one message per key also under aggregate signing.
constructP2pMessagesPerKey(msgType, payloadForSign, priKeys) ==
  { KeepIdx([i \in 1..Len(priKeys) |->
               NetworkMessage(msgType, payloadForSign, {priKeys[i].pub})], I)
    : I \in SUBSET (1..Len(priKeys)) }

\* The message lists constructP2pMessages can return: consensus.construct
\* may fail for the aggregate message or for any single key.
constructP2pMessages(msgType, payloadForSign, priKeys) ==
  IF AggregateSig
  THEN { <<>>,
         << NetworkMessage(msgType, payloadForSign,
                           {priKeys[i].pub : i \in 1..Len(priKeys)}) >> }
  ELSE { KeepIdx([i \in 1..Len(priKeys) |->
                    NetworkMessage(msgType, payloadForSign, {priKeys[i].pub})], I)
         : I \in SUBSET (1..Len(priKeys)) }

\* Variant: the mode is not consulted before a send.
SkipSendNever == FALSE

\* Listening nodes hand nothing to the transport.
SkipSend == mode = "Listening"

\* The outcomes of broadcastConsensusP2pMessages: the messages handed to
\* msgSender.SendWithoutRetry, in order, and whether the last send failed.
broadcastConsensusP2pMessages(p2pMsgs) ==
  IF SkipSend
  THEN { [sent |-> <<>>, err |-> FALSE] }
  ELSE { [sent |-> p2pMsgs, err |-> FALSE] }
       \cup { [sent |-> SubSeq(p2pMsgs, 1, n), err |-> TRUE] : n \in 1..Len(p2pMsgs) }

\* outbox holds the last broadcast: the message type, how many messages
\* constructP2pMessages built, those handed to the transport, and the error.
Broadcast(msgType, p2pMsgs, outcome) ==
  outbox' = [type |-> msgType, built |-> Len(p2pMsgs), sent |-> outcome.sent,
             err |-> outcome.err]

\* ------------------------------------------------------------------ state
NoPayload == [sig |-> NoSig, bitmap |-> {}, len |-> 0]
BlockNumbers == {NumberU64(h) : h \in Hashes}
NoOutbox == [type |-> "NONE", built |-> 0, sent |-> <<>>, err |-> FALSE]
\* What FBFTLog keeps of a message (its block bytes are cleared, line 180).
LogEntry(m) == [type |-> m.type, blockNum |-> m.blockNum, viewID |-> m.viewID,
                blockHash |-> m.blockHash, payload |-> m.payload]

\* The FBFT log before any message or block was recorded.
EmptyLog == [blocks |-> {}, verified |-> {}, msgs |-> {}]
\* The chain's commit signatures before any was written.
EmptyStore == [n \in BlockNumbers |-> NoPayload]

\* The node when the handlers start to run.  The arguments are the values
\* the scenario lets the node start with and the messages the network delivers
\* (any of them, any number of times, in any order).
InitNodeWith(blockNums, modes, chans, verifiers, aggregate, keys, net, stores, logs) ==
  /\ blockNum \in blockNums
  /\ blockHash = EmptyHash
  /\ block = BadBytes
  /\ viewID = 0
  /\ phase = "Announce"
  /\ mode \in modes
  /\ aggregatedPrepareSig = NoSig
  /\ prepareBitmap = {}
  /\ aggregatedCommitSig = NoSig
  /\ commitBitmap = {}
  /\ consensusTimeout = [v \in Timers |-> v = "timeoutBootstrap"]
  /\ BlockNumLowChan \in chans
  /\ mutex = NoThread
  /\ FBFTLog \in logs
  /\ commitSigDB \in stores
  /\ BlockVerifier \in verifiers
  /\ AggregateSig \in aggregate
  /\ priKey \in keys
  /\ network = net
  /\ pc = [t \in Threads |-> "idle"]
  /\ msg = [t \in Threads |-> NoMsg]
  /\ logged = "none"
  /\ outbox = NoOutbox

\* The node on a chain that holds no commit signature yet.
InitNode(blockNums, modes, chans, verifiers, aggregate, keys, net) ==
  InitNodeWith(blockNums, modes, chans, verifiers, aggregate, keys, net, {EmptyStore},
               {EmptyLog})

B2 == 1..2
B3 == 1..3
B4 == 1..4
StartModes == {"Normal", "ViewChanging", "Listening"}

\* Scenario of Spec: PREPARED messages of every kind for block 1 (stale,
\* current, furthest ahead, wrong view, no quorum, bad signature, undecodable
\* block),
\* with an ANNOUNCE and a COMMITTED message for the same block.
PreparedNet ==
  {Announce(1, 0, 1), Committed(1, 1, B3, 1)}
  \cup {Prepared(n, 0, 1, B3, 1, 1) : n \in {0, 1, MaxBlockNum}}
  \cup {Prepared(n, 0, 1, B2, 1, 1) : n \in {1, MaxBlockNum}}
  \cup {Prepared(1, MaxViewID, 1, B3, 1, 1), Prepared(1, 0, 1, B3, 2, 1),
        Prepared(1, 0, 1, B3, 1, BadBytes)}

Init ==
  InitNode({1}, StartModes, 0..ChanCap, {"nil", "set"}, {FALSE}, {<<K1, K2out>>},
           PreparedNet)

\* Scenario of SpecBroadcast: every key configuration, with and without
\* aggregate signing, and one message of each kind for block 1 (the ANNOUNCE
\* also with a wrong view, the PREPARED also ahead of the node).
BroadcastNet ==
  {Announce(1, v, 1) : v \in {0, MaxViewID}}
  \cup {Prepared(n, 0, 1, B3, 1, 1) : n \in {1, MaxBlockNum}}
  \cup {Committed(1, 1, B3, 1)}

InitBroadcast ==
  InitNode({1}, StartModes, {0}, {"set"}, BOOLEAN, KeyConfigs, BroadcastNet)

\* Scenario of SpecCommitted: COMMITTED messages for block 1 with the lowest,
\* the middle and the highest block number, with 3 and with 4 signers, without quorum, with a signature over
\* another block and for a block the log does not hold; the node starts at
\* any block number, 0 included.
CommittedNet ==
  {Announce(1, 0, 1)}
  \cup {Prepared(1, 0, 1, B3, 1, 1)}
  \cup {Committed(n, 1, B3, 1) : n \in {0, 1, MaxBlockNum}}
  \cup {Committed(1, 1, B4, 1), Committed(1, 1, B2, 1), Committed(1, 1, B3, 2),
        Committed(1, 2, B3, 2)}

InitCommitted ==
  InitNode(0..MaxBlockNum, {"Normal"}, {0}, {"set"}, {FALSE},
           {<<K1, K2out>>}, CommittedNet)

\* A commit signature for block 1 persisted with a bitmap one byte longer
\* than the current committee's (ReadCommitSig returns it without error).
LongPayload == [sig |-> [signers |-> B4, digest |-> CommitPayloadOf(1)],
                bitmap |-> B4, len |-> BitmapLen + 1]

\* The FBFT log of a node that verified and recorded block 1 in an earlier
\* round (before a view change began).
Block1Log == [blocks |-> {1}, verified |-> {1}, msgs |-> {}]

\* Scenario of SpecEdge: the chain may already hold a commit signature of
\* another length for block 1 and the log may already hold block 1, the node
\* being in Normal or ViewChanging mode; the leader announces block 2 while
\* PREPARED and COMMITTED messages for block 1 arrive, one COMMITTED message
\* carrying a block number ahead of the node, one an aggregate made over
\* block 2's commit payload.
EdgeNet ==
  {Announce(1, 0, 2), Prepared(1, 0, 1, B3, 1, 1), Committed(1, 1, B4, 1),
   Committed(MaxBlockNum, 1, B3, 1), Committed(1, 1, B3, 2)}

InitEdge ==
  InitNodeWith({1}, {"Normal", "ViewChanging"}, {0}, {"set"}, {FALSE},
               {<<K1, K2out>>}, EdgeNet,
               {EmptyStore, [EmptyStore EXCEPT ![1] = LongPayload]},
               {EmptyLog, Block1Log})

\* Scenario of SpecLive: one message of each kind for block 1, delivered to
\* a node in Normal mode any number of times.
LiveNet ==
  {Announce(1, 0, 1), Prepared(1, 0, 1, B3, 1, 1), Committed(1, 1, B3, 1)}

InitLive ==
  InitNode({1}, {"Normal"}, {0}, {"set"}, {FALSE}, {<<K1, K2out>>}, LiveNet)

\* ---------------------------------------------------------------- helpers
Goto(t, label) == pc' = [pc EXCEPT ![t] = label]

\* A handler returns: the goroutine ends and its message is dropped.
Exit(t) ==
  /\ pc' = [pc EXCEPT ![t] = "idle"]
  /\ msg' = [msg EXCEPT ![t] = NoMsg]

Return(t, line) == Exit(t) /\ logged' = line

\* FBFTLog.AddMessage
AddMessage(m) == FBFTLog' = [FBFTLog EXCEPT !.msgs = @ \cup {LogEntry(m)}]

\* Variant: the send is taken to succeed whatever the channel holds.
CanSignalAlways == TRUE

\* The non-blocking send on BlockNumLowChan succeeds while a slot is free.
CanSignal == BlockNumLowChan < ChanCap

\* Variant: a send that does not look at the channel's free slots.
spinUpStateSyncAlways ==
  /\ BlockNumLowChan' = BlockNumLowChan + 1
  /\ mode' = "Syncing"
  /\ consensusTimeout' = [v \in Timers |-> FALSE]

spinUpStateSync ==
  IF CanSignal
  THEN /\ BlockNumLowChan' = BlockNumLowChan + 1
       /\ mode' = "Syncing"
       /\ consensusTimeout' = [v \in Timers |-> FALSE]
  ELSE UNCHANGED <<BlockNumLowChan, mode, consensusTimeout>>

\* consensus.mutex.Lock()
Lock(t) ==
  /\ pc[t] \in {"a_lock", "p_lock", "c_lock"}
  /\ mutex = NoThread
  /\ mutex' = t
  /\ Goto(t, CASE pc[t] = "a_lock" -> "a_locked"
               [] pc[t] = "p_lock" -> "p_locked"
               [] pc[t] = "c_lock" -> "c_locked")
  /\ UNCHANGED <<state, consensusTimeout, BlockNumLowChan, FBFTLog, commitSigDB,
                 config, msg, logged, outbox>>

\* Variant: a return that leaves the mutex with the handler.
UnlockNever(t) == mutex' = mutex

\* the deferred consensus.mutex.Unlock()
Unlock(t) == mutex' = NoThread

\* -------------------------------------------------------------- onAnnounce
\* lines 19-38: parse, sanity checks, record the message
onAnnounceRecv(t, m) ==
  /\ pc[t] = "idle"
  /\ m.type = "ANNOUNCE"
  /\ \E parsed, sane \in BOOLEAN :
       IF ~parsed THEN Return(t, "[OnAnnounce] Unparseable leader message") /\ UNCHANGED FBFTLog
       ELSE IF ~sane THEN Return(t, "onAnnounceSanityChecks") /\ UNCHANGED FBFTLog
       ELSE /\ AddMessage(m)
            /\ Goto(t, "a_lock")
            /\ msg' = [msg EXCEPT ![t] = m]
            /\ logged' = "[OnAnnounce] Announce message Added"
  /\ UNCHANGED <<state, consensusTimeout, BlockNumLowChan, mutex, commitSigDB,
                 config, outbox>>

switchPhase(to) == phase' = to

\* lines 63-77
prepare(t) ==
  \E p2pMsgs \in constructP2pMessages("PREPARE", NilPayload, getPriKeysInCommittee) :
    \E outcome \in broadcastConsensusP2pMessages(p2pMsgs) :
      /\ Broadcast("PREPARE", p2pMsgs, outcome)
      /\ switchPhase("Prepare")
      /\ Return(t, IF outcome.err THEN "[OnAnnounce] Cannot send prepare message"
                   ELSE "[OnAnnounce] Sent Prepare Message!!")

IsViewChangingMode == mode = "ViewChanging"

\* lines 41-61, under the mutex
onAnnounceLocked(t) ==
  /\ pc[t] = "a_locked"
  /\ blockHash' = msg[t].blockHash
  /\ IF IsViewChangingMode
     THEN Return(t, "[OnAnnounce] Still in ViewChanging Mode, Exiting !!") /\ UNCHANGED <<phase, outbox>>
     ELSE IF ~checkViewIDOk(msg[t])
     THEN Return(t, "[OnAnnounce] ViewID check failed") /\ UNCHANGED <<phase, outbox>>
     ELSE prepare(t)
  /\ Unlock(t)
  /\ UNCHANGED <<blockNum, block, viewID, mode, aggregatedPrepareSig, prepareBitmap,
                 aggregatedCommitSig, commitBitmap, consensusTimeout, BlockNumLowChan,
                 FBFTLog, commitSigDB, config>>

\* -------------------------------------------------------------- onPrepared
\* line 112
StaleForPrepared(m) == m.blockNum < blockNum
\* lines 117, 197, 238, 296
AheadOfState(m) == m.blockNum > blockNum

\* lines 122-155: the checks made on the message alone
PreparedRejection(m, sane) ==
  LET aggSig == m.payload.sig
      mask == m.payload.bitmap
  IN CASE ~ReadSignatureBitmapPayloadOk(m.payload) -> "ReadSignatureBitmapPayload failed"
       [] ~IsQuorumAchievedByMask(mask) -> "[OnPrepared] Quorum Not achieved."
       [] ~VerifyHash(aggSig, mask, PrepareDigest(m.blockHash)) ->
            "[OnPrepared] failed to verify multi signature for prepare phase"
       [] m.block = BadBytes -> "[OnPrepared] Unparseable block header data"
       [] ~sane -> "onPreparedSanityChecks"
       [] OTHER -> "ok"

\* lines 101-155: parse, block-number gate, resync trigger, validation
onPreparedRecv(t, m) ==
  /\ pc[t] = "idle"
  /\ m.type = "PREPARED"
  /\ \E parsed, sane \in BOOLEAN :
       IF ~parsed
       THEN /\ Return(t, "[OnPrepared] Unparseable validator message")
            /\ UNCHANGED <<BlockNumLowChan, mode, consensusTimeout>>
       ELSE IF StaleForPrepared(m)
       THEN /\ Return(t, "Wrong BlockNum Received, ignoring!")
            /\ UNCHANGED <<BlockNumLowChan, mode, consensusTimeout>>
       ELSE /\ IF AheadOfState(m) THEN spinUpStateSync
               ELSE UNCHANGED <<BlockNumLowChan, mode, consensusTimeout>>
            /\ IF PreparedRejection(m, sane) # "ok"
               THEN Return(t, PreparedRejection(m, sane))
               ELSE /\ Goto(t, "p_lock")
                    /\ msg' = [msg EXCEPT ![t] = m]
                    /\ logged' = "[OnPrepared] Received prepared message"
  /\ UNCHANGED <<blockNum, blockHash, block, viewID, phase, aggregatedPrepareSig,
                 prepareBitmap, aggregatedCommitSig, commitBitmap, mutex, FBFTLog,
                 commitSigDB, config, outbox>>

\* lines 160-172: what stops the handler before the block is stored
PreparedGuard(verified) ==
  CASE mode # "Normal" -> "[OnPrepared] Not in normal mode, Exiting!!"
    [] BlockVerifier = "nil" -> "[onPrepared] consensus received message before init. Ignoring"
    [] ~verified -> "[OnPrepared] Block verification failed"
    [] OTHER -> "ok"

\* Variant: the second block-number check also refuses the current block.
PreparedRecheckStrict(m) ==
  CASE ~checkViewIDOk(m) -> "[OnPrepared] ViewID check failed"
    [] m.blockNum >= blockNum -> "[OnPrepared] Future Block Received, ignoring!!"
    [] OTHER -> "ok"

\* lines 188-203: the checks made after the block is stored
PreparedRecheck(m) ==
  CASE ~checkViewIDOk(m) -> "[OnPrepared] ViewID check failed"
    [] AheadOfState(m) -> "[OnPrepared] Future Block Received, ignoring!!"
    [] OTHER -> "ok"

\* lines 160-203, under the mutex
onPreparedLocked(t) ==
  /\ pc[t] = "p_locked"
  /\ \E verified \in BOOLEAN :
       IF PreparedGuard(verified) # "ok"
       THEN /\ Return(t, PreparedGuard(verified))
            /\ Unlock(t)
            /\ UNCHANGED <<FBFTLog, block>>
       ELSE /\ FBFTLog' = [blocks |-> FBFTLog.blocks \cup {msg[t].block},
                           verified |-> FBFTLog.verified \cup {msg[t].block},
                           msgs |-> FBFTLog.msgs \cup {LogEntry(msg[t])}]
            /\ block' = msg[t].block
            /\ IF PreparedRecheck(msg[t]) # "ok"
               THEN Return(t, PreparedRecheck(msg[t])) /\ Unlock(t)
               ELSE /\ Goto(t, "p_commit")
                    /\ logged' = "[OnPrepared] Prepared message and block added"
                    /\ UNCHANGED <<msg, mutex>>
  /\ UNCHANGED <<blockNum, blockHash, viewID, phase, mode, aggregatedPrepareSig,
                 prepareBitmap, aggregatedCommitSig, commitBitmap, consensusTimeout,
                 BlockNumLowChan, commitSigDB, config, outbox>>

\* lines 80-97
sendCommitMessages(blockObj) ==
  \E p2pMsgs \in constructP2pMessages("COMMIT", CommitPayloadOf(blockObj),
                                      getPriKeysInCommittee) :
    \E outcome \in broadcastConsensusP2pMessages(p2pMsgs) :
      /\ Broadcast("COMMIT", p2pMsgs, outcome)
      /\ logged' = IF outcome.err THEN "[sendCommitMessages] Cannot send commit message!!"
                   ELSE "[sendCommitMessages] Sent Commit Message!!"

\* lines 206-222, under the mutex, after the configured delay
onPreparedCommit(t) ==
  /\ pc[t] = "p_commit"
  /\ aggregatedPrepareSig' = msg[t].payload.sig
  /\ prepareBitmap' = msg[t].payload.bitmap
  /\ blockHash' = IF blockHash = EmptyHash THEN msg[t].blockHash ELSE blockHash
  /\ sendCommitMessages(msg[t].block)
  /\ switchPhase("Commit")
  /\ Exit(t)
  /\ Unlock(t)
  /\ UNCHANGED <<blockNum, block, viewID, mode, aggregatedCommitSig, commitBitmap,
                 consensusTimeout, BlockNumLowChan, FBFTLog, commitSigDB,
                 config>>

\* ------------------------------------------------------------- onCommitted
\* Variant: only messages for the node's own block number pass the gate.
StaleForCommittedStrict(m) == m.blockNum # blockNum
\* line 232: the subtraction is unsigned
StaleForCommitted(m) == m.blockNum < USub(blockNum, 1)

\* FBFTLog.GetBlockByHash
GetBlockByHash(h) == IF h \in FBFTLog.blocks THEN h ELSE BadBytes

\* lines 243-270: the checks made on the message and the logged block
CommittedRejection(m) ==
  LET aggSig == m.payload.sig
      mask == m.payload.bitmap
      blockObj == GetBlockByHash(m.blockHash)
  IN CASE ~ReadSignatureBitmapPayloadOk(m.payload) -> "[OnCommitted] readSignatureBitmapPayload failed"
       [] ~IsQuorumAchievedByMask(mask) -> "[OnCommitted] Quorum Not achieved."
       [] blockObj = BadBytes -> "[OnCommitted] Failed finding a matching block for committed message"
       [] ~VerifyHash(aggSig, mask, CommitPayloadOf(blockObj)) ->
            "[OnCommitted] Failed to verify the multi signature for commit phase"
       [] OTHER -> "ok"

\* lines 224-272: parse, block-number gate, resync trigger, validation
onCommittedRecv(t, m) ==
  /\ pc[t] = "idle"
  /\ m.type = "COMMITTED"
  /\ \E parsed \in BOOLEAN :
       IF ~parsed
       THEN /\ Return(t, "[OnCommitted] unable to parse msg")
            /\ UNCHANGED <<BlockNumLowChan, mode, consensusTimeout, FBFTLog>>
       ELSE IF StaleForCommitted(m)
       THEN /\ Return(t, "Wrong BlockNum Received, ignoring!")
            /\ UNCHANGED <<BlockNumLowChan, mode, consensusTimeout, FBFTLog>>
       ELSE /\ IF AheadOfState(m) THEN spinUpStateSync
               ELSE UNCHANGED <<BlockNumLowChan, mode, consensusTimeout>>
            /\ IF CommittedRejection(m) # "ok"
               THEN Return(t, CommittedRejection(m)) /\ UNCHANGED FBFTLog
               ELSE /\ AddMessage(m)
                    /\ Goto(t, "c_lock")
                    /\ msg' = [msg EXCEPT ![t] = m]
                    /\ logged' = "[OnCommitted] Committed message added"
  /\ UNCHANGED <<blockNum, blockHash, block, viewID, phase, aggregatedPrepareSig,
                 prepareBitmap, aggregatedCommitSig, commitBitmap, mutex,
                 commitSigDB, config, outbox>>

\* line 284: a commit signature is persisted and is as long as the new one
SameLength(old, payload) == old # NoPayload /\ old.len = payload.len
\* Variant: the newer payload always replaces the persisted one.
MoreSignersAlways(new, cur) == TRUE
\* line 288
MoreSigners(new, cur) == new > cur

\* Blockchain.WriteCommitSig
WriteCommitSig(n, payload) == commitSigDB' = [commitSigDB EXCEPT ![n] = payload]

\* lines 277-293, under the mutex.  mask is the object commitBitmap points
\* to, so mask.SetMask overwrites the bitmap just stored in the state.
onCommittedLocked(t) ==
  /\ pc[t] = "c_locked"
  /\ LET m == msg[t]
         mask == m.payload.bitmap
         n == NumberU64(m.blockHash)
         commitSigBitmap == commitSigDB[n]
     IN /\ aggregatedCommitSig' = m.payload.sig
        /\ IF SameLength(commitSigBitmap, m.payload)
           THEN /\ commitBitmap' = commitSigBitmap.bitmap
                /\ IF MoreSigners(CountEnabled(mask), CountEnabled(commitSigBitmap.bitmap))
                   THEN WriteCommitSig(n, m.payload)
                   ELSE UNCHANGED commitSigDB
           ELSE /\ commitBitmap' = mask
                /\ WriteCommitSig(n, m.payload)
  /\ Goto(t, "c_catchup")
  /\ logged' = "[OnCommitted] Commit signature stored"
  /\ UNCHANGED <<blockNum, blockHash, block, viewID, phase, mode, aggregatedPrepareSig,
                 prepareBitmap, consensusTimeout, BlockNumLowChan, mutex, FBFTLog,
                 config, msg, outbox>>

\* Variant: the consensus timer is started, the bootstrap timer left alone.
TimersAfterCommitKeepBootstrap(timers) ==
  [timers EXCEPT !["timeoutConsensus"] = TRUE]

\* lines 306-312: stop the bootstrap timer if active, start the consensus timer
TimersAfterCommit(timers) ==
  [timers EXCEPT !["timeoutBootstrap"] = FALSE, !["timeoutConsensus"] = TRUE]

\* consensus.tryCatchup: applies committed blocks and advances the chain
tryCatchup == \E n \in blockNum..MaxBlockNum : blockNum' = n

\* lines 295-313, under the mutex
onCommittedCatchup(t) ==
  /\ pc[t] = "c_catchup"
  /\ tryCatchup
  /\ IF msg[t].blockNum > blockNum'
     THEN Return(t, "[OnCommitted] OUT OF SYNC") /\ UNCHANGED consensusTimeout
     ELSE IF IsViewChangingMode
     THEN Return(t, "[OnCommitted] Still in ViewChanging mode, Exiting!!") /\ UNCHANGED consensusTimeout
     ELSE /\ consensusTimeout' = TimersAfterCommit(consensusTimeout)
          /\ Return(t, IF consensusTimeout["timeoutBootstrap"]
                       THEN "[OnCommitted] Start consensus timer; stop bootstrap timer only once"
                       ELSE "[OnCommitted] Start consensus timer")
  /\ Unlock(t)
  /\ UNCHANGED <<blockHash, block, viewID, phase, mode, aggregatedPrepareSig,
                 prepareBitmap, aggregatedCommitSig, commitBitmap, BlockNumLowChan,
                 FBFTLog, commitSigDB, config, outbox>>

\* ------------------------------------------------------------ specification
Next ==
  \E t \in Threads :
    \/ \E m \in network : onAnnounceRecv(t, m)
    \/ \E m \in network : onPreparedRecv(t, m)
    \/ \E m \in network : onCommittedRecv(t, m)
    \/ Lock(t)
    \/ onAnnounceLocked(t)
    \/ onPreparedLocked(t)
    \/ onPreparedCommit(t)
    \/ onCommittedLocked(t)
    \/ onCommittedCatchup(t)

Spec == Init /\ [][Next]_vars
SpecBroadcast == InitBroadcast /\ [][Next]_vars
SpecCommitted == InitCommitted /\ [][Next]_vars
SpecEdge == InitEdge /\ [][Next]_vars

\* Scheduling: a goroutine inside a locked section keeps running (block
\* verification, catch-up, the commit delay and the sends return), and a
\* goroutine blocked in Lock gets the mutex if it is free again and again
\* (sync.Mutex hands the lock to a waiter that starves).
Fairness ==
  \A t \in Threads :
    /\ SF_vars(Lock(t))
    /\ WF_vars(onAnnounceLocked(t))
    /\ WF_vars(onPreparedLocked(t))
    /\ WF_vars(onPreparedCommit(t))
    /\ WF_vars(onCommittedLocked(t))
    /\ WF_vars(onCommittedCatchup(t))

SpecLive == InitLive /\ [][Next]_vars /\ Fairness

\* ------------------------------------------------------------------ claims
\* The number of messages one broadcast is made of when every message is built.
ExpectedMessages == IF AggregateSig THEN 1 ELSE Len(getPriKeysInCommittee)

ConsensusState == <<blockHash, block, aggregatedPrepareSig, prepareBitmap,
                    aggregatedCommitSig, commitBitmap, phase, mode>>

\* C1: a PREPARED message whose bitmap misses quorum leaves the consensus
\* state (block hash, stored block, prepare signature and bitmap, phase,
\* mode, timers) unchanged and sends nothing, whatever the node's state,
\* also when the message's number is ahead of the node's.
C1_NoQuorumNoChange ==
  [][\A t \in Threads, m \in network :
       ( /\ pc[t] = "idle" /\ m.type = "PREPARED"
         /\ ~IsQuorumAchievedByMask(m.payload.bitmap)
         /\ onPreparedRecv(t, m) )
       => UNCHANGED <<blockHash, block, aggregatedPrepareSig, prepareBitmap, phase,
                      mode, consensusTimeout, outbox>>]_vars

\* C6: a PREPARED message ahead of the node's block number leaves exactly one
\* signal on the sync channel; a trigger (of onPrepared or onCommitted) that
\* finds the signal pending adds none and changes neither mode nor timers.
C6_OneResyncSignal ==
  [][\A t \in Threads, m \in network :
       ( /\ pc[t] = "idle"
         /\ AheadOfState(m)
         /\ \/ /\ m.type = "PREPARED"
               /\ logged' # "[OnPrepared] Unparseable validator message"
               /\ onPreparedRecv(t, m)
            \/ /\ m.type = "COMMITTED"
               /\ ~StaleForCommitted(m)
               /\ logged' # "[OnCommitted] unable to parse msg"
               /\ onCommittedRecv(t, m) )
       => /\ BlockNumLowChan' = 1
          /\ BlockNumLowChan = 1 => UNCHANGED <<mode, consensusTimeout>>
          /\ BlockNumLowChan = 0 =>
               mode' = "Syncing" /\ \A v \in Timers : ~consensusTimeout'[v]]_vars

\* C6 witness: a goroutine passed the gate with a PREPARED message ahead of
\* the node, the signal is on the channel and the node is syncing.
C6_Witness ==
  \E t \in Threads :
    /\ pc[t] = "p_lock" /\ msg[t].blockNum > blockNum
    /\ BlockNumLowChan = 1 /\ mode = "Syncing"
    /\ \A v \in Timers : ~consensusTimeout[v]

\* C7: every change of the lock-guarded consensus state and of the timers is
\* made by a handler that holds the consensus mutex.
C7_MutationsUnderMutex ==
  [][UNCHANGED <<ConsensusState, consensusTimeout>>
     \/ \E t \in Threads : mutex = t /\ pc'[t] # pc[t]]_vars

\* C8: an onPrepared invocation that rejects its message after taking the
\* lock leaves block bytes, block hash, prepare signature and bitmap and
\* phase as they were and sends no COMMIT.
C8_LockedRejectionNoChange ==
  [][\A t \in Threads :
       (pc[t] = "p_locked" /\ pc'[t] = "idle" /\ onPreparedLocked(t))
       => UNCHANGED <<block, blockHash, aggregatedPrepareSig, prepareBitmap, phase,
                      outbox>>]_vars

C9_NoCommitOutsideNormal ==
  [][\A t \in Threads :
       (pc[t] = "p_commit" /\ onPreparedCommit(t))
       => mutex = t /\ mode = "Normal" /\ BlockVerifier = "set"]_vars

\* A recorded COMMITTED message whose handler has not yet persisted.
PersistPending(e) ==
  \E t \in Threads : pc[t] \in {"c_lock", "c_locked"} /\ LogEntry(msg[t]) = e

\* C2: once onCommitted has persisted for a valid COMMITTED message, the
\* commit signature persisted for its block is the payload of one of the
\* COMMITTED messages processed for that block, and among payloads of equal
\* length none processed so far has more enabled bits, whatever the order.
C2_PersistedHasMostSigners ==
  \A e \in FBFTLog.msgs :
    (e.type = "COMMITTED" /\ ~PersistPending(e))
    => LET p == commitSigDB[NumberU64(e.blockHash)]
       IN /\ p # NoPayload
          /\ \E f \in FBFTLog.msgs :
               f.type = "COMMITTED" /\ f.blockHash = e.blockHash /\ f.payload = p
          /\ p.len = e.payload.len
               => CountEnabled(p.bitmap) >= CountEnabled(e.payload.bitmap)

\* C2 witness: the 4-signer message was processed before the 3-signer one;
\* the state holds the later signature, the store still the 4-signer payload.
C2_Witness ==
  /\ \A t \in Threads : pc[t] = "idle"
  /\ \E e, f \in FBFTLog.msgs :
       /\ e.type = "COMMITTED" /\ f.type = "COMMITTED"
       /\ e.blockHash = 1 /\ f.blockHash = 1
       /\ e.payload.bitmap = B3 /\ f.payload.bitmap = B4
  /\ aggregatedCommitSig.signers = B3
  /\ commitSigDB[1] = Payload(B4, CommitPayloadOf(1))

\* C3: a parsed COMMITTED message is dropped as stale, with no state change,
\* exactly when its block number is below the predecessor blockNum - 1 of the
\* node's block number, computed over the integers; otherwise it passes the gate.
C3_GateIsPredecessor ==
  [][\A t \in Threads, m \in network :
       ( /\ pc[t] = "idle" /\ m.type = "COMMITTED"
         /\ logged' # "[OnCommitted] unable to parse msg"
         /\ onCommittedRecv(t, m) )
       => (logged' = "Wrong BlockNum Received, ignoring!") <=> (m.blockNum < blockNum - 1)]_vars

\* C5 as stated (granting that every message is built and no send fails): a
\* valid ANNOUNCE handled outside ViewChanging mode hands the transport one
\* PREPARE per committee key held, or one aggregate message, and moves the
\* phase to Prepare; in ViewChanging mode the message is recorded, blockHash
\* is set, nothing is sent and the phase stays.
C5_OnePreparePerKey ==
  [][\A t \in Threads :
       (pc[t] = "a_locked" /\ onAnnounceLocked(t))
       => IF mode = "ViewChanging"
          THEN /\ blockHash' = msg[t].blockHash
               /\ LogEntry(msg[t]) \in FBFTLog'.msgs
               /\ UNCHANGED <<phase, outbox>>
          ELSE checkViewIDOk(msg[t])
               => /\ phase' = "Prepare"
                  /\ outbox'.type = "PREPARE"
                  /\ (outbox'.built = ExpectedMessages /\ ~outbox'.err)
                       => Len(outbox'.sent) = ExpectedMessages]_vars

\* C5, amended: outside ViewChanging and Listening mode the valid ANNOUNCE
\* hands the transport one PREPARE per committee key held (one aggregate
\* message under aggregate signing) when every message is built and no send
\* fails, never more, each over a different key; in Listening mode nothing is
\* handed over; in both cases the phase moves to Prepare.  In ViewChanging
\* mode the message is recorded, blockHash is set, nothing is sent and the
\* phase stays.
C5_OnePreparePerKeyUnlessListening ==
  [][\A t \in Threads :
       (pc[t] = "a_locked" /\ onAnnounceLocked(t))
       => IF mode = "ViewChanging"
          THEN /\ blockHash' = msg[t].blockHash
               /\ LogEntry(msg[t]) \in FBFTLog'.msgs
               /\ UNCHANGED <<phase, outbox>>
          ELSE checkViewIDOk(msg[t])
               => /\ phase' = "Prepare"
                  /\ blockHash' = msg[t].blockHash
                  /\ outbox'.type = "PREPARE"
                  /\ outbox'.built <= ExpectedMessages
                  /\ Len(outbox'.sent) <= outbox'.built
                  /\ mode = "Listening" => outbox'.sent = <<>>
                  /\ (mode # "Listening" /\ ~outbox'.err)
                       => Len(outbox'.sent) = outbox'.built
                  /\ \A i \in 1..Len(outbox'.sent) :
                       /\ outbox'.sent[i].type = "PREPARE"
                       /\ outbox'.sent[i].keys \subseteq
                            {getPriKeysInCommittee[k].pub :
                               k \in 1..Len(getPriKeysInCommittee)}
                       /\ \A j \in 1..Len(outbox'.sent) :
                            j # i => outbox'.sent[j].keys # outbox'.sent[i].keys]_vars

\* C5 witness: a node in Normal mode holding two committee keys, without
\* aggregate signing, answered an ANNOUNCE with two PREPARE messages.
C5_Witness ==
  /\ mode = "Normal" /\ ~AggregateSig /\ Len(getPriKeysInCommittee) = 2
  /\ phase = "Prepare" /\ blockHash = 1
  /\ outbox.type = "PREPARE" /\ Len(outbox.sent) = 2 /\ ~outbox.err
  /\ outbox.sent[1].keys = {"k1"} /\ outbox.sent[2].keys = {"k2"}

\* C10: a step taken in Listening mode hands no message to the transport:
\* a broadcast made in that mode sends nothing and reports no error.
C10_ListeningSendsNothing ==
  [][(mode = "Listening" /\ outbox' # outbox)
     => /\ outbox'.sent = <<>> /\ ~outbox'.err
        /\ logged' \in {"[OnAnnounce] Sent Prepare Message!!",
                        "[sendCommitMessages] Sent Commit Message!!"}]_vars

\* C10 witness: a Listening node holding a committee key handled an ANNOUNCE:
\* it built its PREPARE, handed nothing to the transport, moved to Prepare.
C10_Witness ==
  /\ mode = "Listening" /\ phase = "Prepare"
  /\ outbox.type = "PREPARE" /\ outbox.built >= 1
  /\ outbox.sent = <<>> /\ ~outbox.err
  /\ logged = "[OnAnnounce] Sent Prepare Message!!"

\* What one call of spinUpStateSync does to channel, mode and timers.
TriggerEffect ==
  IF BlockNumLowChan < ChanCap
  THEN /\ BlockNumLowChan' = BlockNumLowChan + 1
       /\ mode' = "Syncing"
       /\ \A v \in Timers : ~consensusTimeout'[v]
  ELSE UNCHANGED <<BlockNumLowChan, mode, consensusTimeout>>

\* C11: spinUpStateSync never blocks: a handler that reaches it with a message
\* ahead of the node can always take its step, free slot or not.  When the
\* channel accepts the signal the mode becomes Syncing and every timer is
\* stopped; when it cannot, channel, mode and timers stay as they are, so a
\* call made while a signal is pending adds nothing to the first one.
C11_TriggerNeverBlocks ==
  /\ [](\A t \in Threads, m \in network :
          (pc[t] = "idle" /\ m.type \in {"PREPARED", "COMMITTED"} /\ AheadOfState(m)
           /\ (m.type = "COMMITTED" => ~StaleForCommitted(m)))
          => ENABLED ( /\ onPreparedRecv(t, m) \/ onCommittedRecv(t, m)
                       /\ logged' \notin {"[OnPrepared] Unparseable validator message",
                                          "[OnCommitted] unable to parse msg"} ))
  /\ [][\A t \in Threads, m \in network :
          ( /\ pc[t] = "idle" /\ AheadOfState(m)
            /\ \/ /\ m.type = "PREPARED"
                  /\ logged' # "[OnPrepared] Unparseable validator message"
                  /\ onPreparedRecv(t, m)
               \/ /\ m.type = "COMMITTED" /\ ~StaleForCommitted(m)
                  /\ logged' # "[OnCommitted] unable to parse msg"
                  /\ onCommittedRecv(t, m) )
          => TriggerEffect]_vars

\* C11 witness: the channel held a signal from the start; a handler made its
\* trigger with a message ahead of the node and went on, the node still in
\* Normal mode with its bootstrap timer active.
C11_Witness ==
  \E t \in Threads :
    /\ pc[t] = "p_lock" /\ msg[t].blockNum > blockNum
    /\ BlockNumLowChan = ChanCap /\ mode = "Normal"
    /\ consensusTimeout["timeoutBootstrap"]

\* C12: when a commit signature is persisted for the block and its length
\* differs from the incoming payload's, onCommitted leaves the persisted value
\* as it is; it overwrites only when none is persisted or when the new bitmap
\* has strictly more enabled bits.
C12_KeepsOnLengthMismatch ==
  [][\A t \in Threads :
       (pc[t] = "c_locked" /\ onCommittedLocked(t))
       => LET n == NumberU64(msg[t].blockHash)
              old == commitSigDB[n]
          IN /\ (old # NoPayload /\ old.len # msg[t].payload.len)
                  => commitSigDB'[n] = old
             /\ commitSigDB'[n] # old
                  => \/ old = NoPayload
                     \/ CountEnabled(msg[t].payload.bitmap) > CountEnabled(old.bitmap)]_vars

\* C13: when onCommitted reaches its timer bookkeeping, a message still
\* ahead of the node after catch-up, or a node in ViewChanging mode, leaves
\* every timer as it was; otherwise the step ends with the bootstrap timer
\* stopped and the consensus timer running, the first such commit being the
\* one that finds the bootstrap timer active.  No step makes a stopped
\* bootstrap timer active again.
C13_TimerBookkeeping ==
  [][/\ \A t \in Threads :
          (pc[t] = "c_catchup" /\ onCommittedCatchup(t))
          => IF msg[t].blockNum > blockNum' \/ mode = "ViewChanging"
             THEN UNCHANGED consensusTimeout
             ELSE /\ ~consensusTimeout'["timeoutBootstrap"]
                  /\ consensusTimeout'["timeoutConsensus"]
                  /\ consensusTimeout["timeoutBootstrap"]
                       <=> logged' = "[OnCommitted] Start consensus timer; stop bootstrap timer only once"
     /\ ~consensusTimeout["timeoutBootstrap"] => ~consensusTimeout'["timeoutBootstrap"]]_vars

\* C13 witness: a commit after the first one: the handler found the bootstrap
\* timer already stopped and restarted the consensus timer.
C13_Witness ==
  /\ logged = "[OnCommitted] Start consensus timer"
  /\ ~consensusTimeout["timeoutBootstrap"] /\ consensusTimeout["timeoutConsensus"]
  /\ mode = "Normal" /\ \A t \in Threads : pc[t] = "idle"

\* The payload the commit payload function yields for the block the log
\* returns for a hash.
LoggedBlockPayload(h) ==
  LET b == GetBlockByHash(h)
  IN ConstructCommitPayload(Epoch(b), b, NumberU64(b), HeaderViewID(b))

C15_PrepareSigMatchesBlockHash ==
  [][\A t \in Threads :
       (pc[t] = "p_commit" /\ onPreparedCommit(t))
       => /\ IsQuorumAchievedByMask(prepareBitmap')
          /\ blockHash' = msg[t].blockHash
          /\ VerifyHash(aggregatedPrepareSig', prepareBitmap', PrepareDigest(blockHash'))]_vars

\* C16: onPrepared sends COMMIT and moves to Commit only for a message whose
\* block number is the node's while the lock is held; a message whose block
\* number has fallen below the node's by the time the lock is taken is
\* dropped, the stored block and the log left as they were.
C16_CommitOnlyForCurrentBlockNum ==
  [][\A t \in Threads :
       /\ (pc[t] = "p_commit" /\ onPreparedCommit(t)) => msg[t].blockNum = blockNum
       /\ (pc[t] = "p_locked" /\ msg[t].blockNum < blockNum /\ onPreparedLocked(t))
          => pc'[t] = "idle" /\ UNCHANGED <<block, FBFTLog>>]_vars

\* A COMMITTED message ahead of the node that passes every check of
\* onCommitted made before the lock.
ValidAhead(m) ==
  /\ m.type = "COMMITTED" /\ m.blockNum > blockNum
  /\ CommittedRejection(m) = "ok"

LockedLabels == {"a_locked", "p_locked", "p_commit", "c_locked", "c_catchup"}

\* The mutex is held by exactly the handler that is inside a locked section.
MutexHeldInside ==
  /\ mutex \in Threads \cup {NoThread}
  /\ \A t \in Threads : pc[t] \in LockedLabels <=> mutex = t

\* C18: the mutex is held by a handler exactly while it is between Lock and
\* its return (so every return releases it, no handler waits for a mutex it
\* holds, and at most one handler is inside a locked section), and every
\* handler invocation that has started returns.
C18_MutexReleasedAndLive ==
  /\ []MutexHeldInside
  /\ \A t \in Threads : (pc[t] # "idle") ~> (pc[t] = "idle")

\* C18 witness: a handler waits in Lock while another is inside its locked
\* section, holding the mutex.
C18_Witness ==
  \E t, u \in Threads :
    /\ pc[t] \in {"a_lock", "p_lock", "c_lock"}
    /\ pc[u] \in LockedLabels /\ mutex = u

\* C19: when onCommitted has stored a received aggregate commit signature,
\* the commit bitmap in the state is the bitmap of that same message, whether
\* or not a commit signature of equal length was persisted before.
C19_CommitBitmapIsTheMessages ==
  [][\A t \in Threads :
       (pc[t] = "c_locked" /\ onCommittedLocked(t))
       => /\ aggregatedCommitSig' = msg[t].payload.sig
          /\ commitBitmap' = msg[t].payload.bitmap]_vars

\* C20: while the node is in Syncing mode every round timer is stopped.
C20_TimersStoppedWhileSyncing ==
  mode = "Syncing" => \A v \in Timers : ~consensusTimeout[v]

====
